---- MODULE Spec2Model ----
(***************************************************************************)
(* Model of the knowledge-graph front end: the App view state machine      *)
(* (frontend/src/App.jsx) and the GraphVisualization component             *)
(* (frontend/src/components/GraphVisualisation.jsx, first definition).     *)
(*                                                                         *)
(* Every synchronous run of JavaScript (an event handler, the part of an   *)
(* async function between two awaits, a timer callback, a commit with its  *)
(* effects) is one action: the event loop runs it to completion and React  *)
(* batches the state updates it makes, so only its final state is seen.    *)
(***************************************************************************)
EXTENDS Integers, Sequences, FiniteSets, TLC

(***************************************************************************)
(* Bounds of the model.                                                    *)
(***************************************************************************)
MaxEnt == 2        \* longest entities array of a response
MaxRel == 2        \* longest relationships array of a response
MaxInst == 2       \* rendering instances created during one run
MaxSubmits == 2    \* calls of handleURLSubmit that overlap

(***************************************************************************)
(* JavaScript values.  A scalar is a record: t its type, v what String()   *)
(* makes of it, n its numeric value.                                       *)
(***************************************************************************)
Undef == [t |-> "undef", v |-> "undefined", n |-> 0]
Null == [t |-> "null", v |-> "null", n |-> 0]
Str(s) == [t |-> "str", v |-> s, n |-> 0]
DecStr(k) ==
    CASE k = -1 -> "-1" [] k = 0 -> "0" [] k = 1 -> "1" [] k = 2 -> "2"
      [] k = 3 -> "3" [] k = 4 -> "4" [] k = 5 -> "5" [] k = 6 -> "6"
      [] k = 7 -> "7" [] k = 8 -> "8" [] k = 9 -> "9" [] OTHER -> "10"
Num(k) == [t |-> "num", v |-> DecStr(k), n |-> k]

\* ToBoolean: undefined, null, '' and 0 are falsy
Truthy(x) ==
    CASE x.t = "str" -> x.v # ""
      [] x.t = "num" -> x.n # 0
      [] OTHER -> FALSE

\* a || b
Or(a, b) == IF Truthy(a) THEN a ELSE b

\* String(x)
String(x) == x.v

(***************************************************************************)
(* The entities / relationships field of a response: missing, an array     *)
(* (a), or some other value (here a string v).                             *)
(***************************************************************************)
Missing == [t |-> "undef", v |-> "", a |-> <<>>]
Arr(s) == [t |-> "arr", v |-> "", a |-> s]
NotArr(s) == [t |-> "str", v |-> s, a |-> <<>>]

FieldTruthy(f) == f.t = "arr" \/ (f.t = "str" /\ f.v # "")
IsArray(f) == f.t = "arr"
\* f.length === 0 (of a truthy f)
LengthIsZero(f) == IF f.t = "arr" THEN Len(f.a) = 0 ELSE f.v = ""

(***************************************************************************)
(* The responses the backend can send.                                     *)
(***************************************************************************)
Entity(id, name, type, mentions) ==
    [id |-> id, name |-> name, type |-> type, mentions |-> mentions]
Rel(source, from, target, to, type, relationship) ==
    [source |-> source, from |-> from, target |-> target, to |-> to,
     type |-> type, relationship |-> relationship]

\* the entities and relationships of the responses through which the whole
\* application is followed
AppEntityPool ==
    { Entity(Str("a"), Str("Alice"), Str("PERSON"), Num(9)),
      Entity(Undef, Str("b"), Str("ORGANIZATION"), Undef) }

AppRelPool ==
    { Rel(Str("a"), Undef, Str("b"), Undef, Str("works_at"), Undef),
      Rel(Str("a"), Undef, Str("zzz"), Undef, Undef, Str("bad")) }

\* those of the responses the build is applied to: also a second entity of
\* id "a", without type and of 0 mentions, an entity of id 0 and of -1
\* mentions, a relationship that names its ends from / to, and one from 0
EntityPool ==
    AppEntityPool \cup
    { Entity(Str("a"), Str("Alicia"), Undef, Num(0)),
      Entity(Num(0), Str("zero"), Str("PERSON"), Num(-1)) }

RelPool ==
    AppRelPool \cup
    { Rel(Undef, Str("b"), Undef, Str("a"), Undef, Undef),
      Rel(Num(0), Undef, Str("a"), Undef, Str("knows"), Undef) }

SeqsUpTo(S, k) == UNION { [1..m -> S] : m \in 0..k }

FieldShapes(S, k) ==
    { Arr(s) : s \in SeqsUpTo(S, k) } \cup { Missing, NotArr(""), NotArr("x") }

NoData == [t |-> "null"]
Payload(entities, relationships) ==
    [t |-> "obj", entities |-> entities, relationships |-> relationships]

AppPayloads ==
    { Payload(e, r) : e \in FieldShapes(AppEntityPool, MaxEnt),
                      r \in FieldShapes(AppRelPool, MaxRel) }

Payloads ==
    { Payload(e, r) : e \in FieldShapes(EntityPool, MaxEnt),
                      r \in FieldShapes(RelPool, MaxRel) }

(***************************************************************************)
(* The node / edge build of the GraphVisualization effect.                 *)
(***************************************************************************)
NodeOf(entity) ==
    [id |-> String(Or(entity.id, entity.name)),
     label |-> Or(entity.name, Str("Unknown")),
     type |-> Or(entity.type, Str("default")),
     mentions |-> Or(entity.mentions, Num(1))]

BuildNodes(entities) == [i \in 1..Len(entities) |-> NodeOf(entities[i])]

ValidNodeIds(nodes) == { nodes[i].id : i \in 1..Len(nodes) }

\* the element of the first .map of the relationships: idx is the 0-based index
EdgeOf(rel, idx) ==
    [id |-> "edge-" \o DecStr(idx),
     source |-> String(Or(Or(rel.source, rel.from), Str(""))),
     target |-> String(Or(Or(rel.target, rel.to), Str(""))),
     label |-> Or(Or(rel.type, rel.relationship), Str("related")),
     type |-> Or(Or(rel.type, rel.relationship), Str("related"))]

EdgeValidSourceOnly(validNodeIds, edge) == edge.source \in validNodeIds

EdgeValid(validNodeIds, edge) ==
    edge.source \in validNodeIds /\ edge.target \in validNodeIds

MappedEdges(relationships) ==
    [i \in 1..Len(relationships) |-> EdgeOf(relationships[i], i - 1)]

BuildEdgesRenumbered(relationships, validNodeIds) ==
    LET Test(edge) == EdgeValid(validNodeIds, edge)
        kept == SelectSeq(MappedEdges(relationships), Test)
    IN  [i \in 1..Len(kept) |-> [kept[i] EXCEPT !.id = "edge-" \o DecStr(i - 1)]]

\* .filter(edge => edge.valid), in input order
BuildEdges(relationships, validNodeIds) ==
    LET Test(edge) == EdgeValid(validNodeIds, edge)
    IN  SelectSeq(MappedEdges(relationships), Test)

\* the edges the filter drops, each with a console.warn
SkippedEdges(relationships, validNodeIds) ==
    LET Test(edge) == ~EdgeValid(validNodeIds, edge)
    IN  SelectSeq(MappedEdges(relationships), Test)

\* the node style: 'width' / 'height':
\* ele => Math.min(20 + (ele.data('mentions') || 1) * 5, 60)
Min(a, b) == IF a <= b THEN a ELSE b

NodeDiameter(node) == Min(20 + Or(node.mentions, Num(1)).n * 5, 60)

(***************************************************************************)
(* The legend statistics.                                                  *)
(***************************************************************************)
EntityTypeKey(entity) == String(Or(entity.type, Str("Unknown")))
RelTypeKey(rel) == String(Or(Or(rel.type, rel.relationship), Str("related")))

getEntityTypeCounts(entities) ==
    [k \in { EntityTypeKey(entities[i]) : i \in 1..Len(entities) } |->
        Cardinality({ i \in 1..Len(entities) : EntityTypeKey(entities[i]) = k })]

getRelationshipTypeCounts(relationships) ==
    [k \in { RelTypeKey(relationships[i]) : i \in 1..Len(relationships) } |->
        Cardinality({ i \in 1..Len(relationships) : RelTypeKey(relationships[i]) = k })]

NoStats == [t |-> "null"]
Stats(nodes, edges, graphData) ==
    [t |-> "obj",
     nodes |-> Len(nodes),
     edges |-> Len(edges),
     entityTypes |-> getEntityTypeCounts(graphData.entities.a),
     relationshipTypes |-> getRelationshipTypeCounts(graphData.relationships.a)]

RECURSIVE SumOver(_, _)
SumOver(f, S) ==
    IF S = {} THEN 0
    ELSE LET k == CHOOSE k \in S : TRUE IN f[k] + SumOver(f, S \ {k})
SumCounts(f) == SumOver(f, DOMAIN f)

(***************************************************************************)
(* State.                                                                  *)
(*   graphData, loading, error, progress, currentStep: the App's useState  *)
(*   calls: the calls of handleURLSubmit that have not returned, or whose  *)
(*          500 ms timer has not fired; tok numbers them in call order     *)
(*   latest: the tok of the call of handleURLSubmit made last              *)
(*   writer: the tok of the call whose code wrote the App state last       *)
(*   gv: the GraphVisualization component, its refs, its rendering         *)
(*       instances and its timers                                          *)
(***************************************************************************)
VARIABLES graphData, loading, error, progress, currentStep,
          calls, latest, writer, gv

appVars == <<graphData, loading, error, progress, currentStep, calls, latest, writer>>
vars == <<graphData, loading, error, progress, currentStep, calls, latest, writer, gv>>

(***************************************************************************)
(* What App renders.                                                       *)
(***************************************************************************)
InputShown == graphData = NoData /\ ~loading /\ ~Truthy(error)
LoadingShown == loading
ErrorShown == Truthy(error)
GraphShown == graphData # NoData /\ ~loading /\ ~Truthy(error)

(***************************************************************************)
(* GraphVisualization.                                                     *)
(*   mounted: the component is in the tree                                 *)
(*   container: containerRef.current is the canvas element (not null)      *)
(*   cyRef: cyRef.current, the id of an instance, 0 for null               *)
(*   insts: the cytoscape instances created and not destroyed              *)
(*   hasCleanup: the last run of the effect returned its cleanup function  *)
(*   timers: the instances whose 100 ms fit timer is pending               *)
(*   lastFit: the last fit made by a timer: by the timer of which          *)
(*            instance, on which instance                                  *)
(*   skipped: the edges the last build warned about on the console         *)
(***************************************************************************)
NoFit == [by |-> 0, on |-> 0]

\* useState(null) of selectedNode
NoSelection == [t |-> "null"]

GVInit ==
    [mounted |-> FALSE, container |-> FALSE, cyRef |-> 0, layout |-> "cose",
     stats |-> NoStats, selectedNode |-> NoSelection, hasCleanup |-> FALSE,
     insts |-> {}, nextId |-> 1, timers |-> {}, lastFit |-> NoFit,
     skipped |-> <<>>]

Layouts == {"cose", "circle", "grid", "breadthfirst"}

\* the component's last return is reached: the canvas element is rendered
\* (loading and error are falsy whenever App renders the component)
ContainerRendered(data) ==
    ~(data = NoData \/ ~FieldTruthy(data.entities) \/ LengthIsZero(data.entities))

\* cy.destroy()
DestroyKeepsInstance(insts, id) == insts

DestroyInstance(insts, id) == { c \in insts : c.id # id }

DestroyCurrentKeepsRef(g) ==
    IF g.cyRef # 0
    THEN [g EXCEPT !.insts = DestroyInstance(@, g.cyRef)]
    ELSE g

\* if (cyRef.current) { cyRef.current.destroy(); cyRef.current = null }
DestroyCurrent(g) ==
    IF g.cyRef # 0
    THEN [g EXCEPT !.insts = DestroyInstance(@, g.cyRef), !.cyRef = 0]
    ELSE g

\* the cleanup function the effect returned, if it returned one
EffectCleanup(g) ==
    IF g.hasCleanup
    THEN [DestroyCurrent(g) EXCEPT !.hasCleanup = FALSE]
    ELSE g

\* cytoscape({container, elements: [...nodes, ...edges], layout: {name: layout}})
Cytoscape(id, nodes, edges, layout) ==
    [id |-> id, nodes |-> nodes, edges |-> edges, layout |-> layout]

\* what a run of the effect meets: a container of zero width or height
\* ("zero"), a cytoscape() that throws ("throws"), or neither ("ok")
Outcomes == {"ok", "zero", "throws"}

\* one run of the effect
Effect(g, data, outcome) ==
    IF data = NoData \/ ~g.container
    THEN [g EXCEPT !.hasCleanup = FALSE]
    ELSE IF ~FieldTruthy(data.entities) \/ ~IsArray(data.entities)
    THEN [g EXCEPT !.hasCleanup = FALSE]
    ELSE IF ~FieldTruthy(data.relationships) \/ ~IsArray(data.relationships)
    THEN [g EXCEPT !.hasCleanup = FALSE]
    ELSE
      LET g1 == DestroyCurrent(g)
          nodes == BuildNodes(data.entities.a)
          validNodeIds == ValidNodeIds(nodes)
          edges == BuildEdges(data.relationships.a, validNodeIds)
          g2 == [g1 EXCEPT !.skipped = SkippedEdges(data.relationships.a, validNodeIds)]
          cy == Cytoscape(g.nextId, nodes, edges, g.layout)
      IN  IF outcome = "zero" THEN [g2 EXCEPT !.hasCleanup = FALSE]
          ELSE IF outcome = "throws" THEN [g2 EXCEPT !.hasCleanup = TRUE]
          ELSE [g2 EXCEPT !.insts = @ \cup {cy},
                          !.nextId = @ + 1,
                          !.cyRef = cy.id,
                          !.stats = Stats(nodes, edges, data),
                          !.timers = @ \cup {cy.id},
                          !.hasCleanup = TRUE]

\* the component is mounted with its initial state and its effect runs; the
\* timers of an earlier mount read that mount's ref, which stays null, and
\* the instances of this mount are numbered from 1.
\* strict: development mode, which runs effect, cleanup, effect on a mount
Mount(g, data, outcome, strict) ==
    LET g1 == Effect([g EXCEPT !.mounted = TRUE,
                               !.container = ContainerRendered(data),
                               !.cyRef = 0, !.layout = "cose", !.stats = NoStats,
                               !.selectedNode = NoSelection,
                               !.hasCleanup = FALSE, !.timers = {},
                               !.nextId = 1, !.lastFit = NoFit],
                     data, outcome)
    IN  IF strict /\ g1.nextId <= MaxInst
        THEN Effect(EffectCleanup(g1), data, outcome)
        ELSE g1

\* the component leaves the tree: the cleanup runs and the state is dropped;
\* the pending fit timers stay, but they read this mount's ref, now null
Unmount(g) ==
    [EffectCleanup(g) EXCEPT !.mounted = FALSE, !.container = FALSE,
                             !.layout = "cose", !.stats = NoStats,
                             !.selectedNode = NoSelection,
                             !.timers = {}]

RerunClearsSelection(g, data, outcome) ==
    Effect([EffectCleanup(g) EXCEPT !.container = ContainerRendered(data),
                                    !.selectedNode = NoSelection],
           data, outcome)

\* a dependency of the effect changed: cleanup, then the effect again; the
\* state of the component (selectedNode, stats) stays
Rerun(g, data, outcome) ==
    Effect([EffectCleanup(g) EXCEPT !.container = ContainerRendered(data)],
           data, outcome)

\* the component after App rendered again: shown / shownNext say whether App
\* renders it before and after, newData whether graphData is a new object
Rendered(g, shown, shownNext, data, newData, outcome, strict) ==
    CASE ~shown /\ shownNext -> Mount(g, data, outcome, strict)
      [] shown /\ ~shownNext -> Unmount(g)
      [] shown /\ shownNext /\ newData -> Rerun(g, data, outcome)
      [] OTHER -> g

(***************************************************************************)
(* App: handleURLSubmit, one action for each run between two awaits.       *)
(***************************************************************************)
Init ==
    /\ graphData = NoData
    /\ loading = FALSE
    /\ error = Null
    /\ progress = 0
    /\ currentStep = ""
    /\ calls = {}
    /\ latest = 0
    /\ writer = 0
    /\ gv = GVInit

Call(tok, pc, data) == [tok |-> tok, pc |-> pc, data |-> data]

\* App renders again after an action changed its state
Render(newData, outcome, strict) ==
    gv' = Rendered(gv, GraphShown, GraphShown', graphData', newData, outcome, strict)

\* handleURLSubmit up to the await of fetch
NewTok == IF calls = {} THEN 1 ELSE latest + 1

handleURLSubmitKeepsData ==
    /\ NewTok <= MaxSubmits
    /\ latest' = NewTok
    /\ loading' = TRUE
    /\ error' = Null
    /\ graphData' = graphData
    /\ progress' = 10
    /\ currentStep' = "Sending request to backend..."
    /\ calls' = calls \cup {Call(NewTok, "fetch", NoData)}
    /\ writer' = NewTok
    /\ Render(FALSE, "ok", FALSE)

handleURLSubmit ==
    /\ NewTok <= MaxSubmits
    /\ latest' = NewTok
    /\ loading' = TRUE
    /\ error' = Null
    /\ graphData' = NoData
    /\ progress' = 10
    /\ currentStep' = "Sending request to backend..."
    /\ calls' = calls \cup {Call(NewTok, "fetch", NoData)}
    /\ writer' = NewTok
    /\ Render(FALSE, "ok", FALSE)

\* the catch block: what it sets
CatchKeepsLoading(message) ==
    [error |-> Str(message), loading |-> loading, progress |-> 0, currentStep |-> ""]

CatchKeepsProgress(message) ==
    [error |-> Str(message), loading |-> FALSE, progress |-> progress,
     currentStep |-> currentStep]

CatchState(message) ==
    [error |-> Str(message), loading |-> FALSE, progress |-> 0, currentStep |-> ""]

Catch(c, message) ==
    /\ error' = CatchState(message).error
    /\ loading' = CatchState(message).loading
    /\ progress' = CatchState(message).progress
    /\ currentStep' = CatchState(message).currentStep
    /\ calls' = calls \ {c}
    /\ writer' = c.tok
    /\ UNCHANGED <<graphData, latest>>
    /\ Render(FALSE, "ok", FALSE)

\* fetch rejects: the backend is unreachable
FetchRejects(c) ==
    /\ c.pc = "fetch"
    /\ Catch(c, "Failed to fetch")

\* fetch resolves with a response whose ok is false
FetchResolvesNotOk(c) ==
    /\ c.pc = "fetch"
    /\ progress' = 30
    /\ currentStep' = "Backend processing article..."
    /\ calls' = (calls \ {c}) \cup {Call(c.tok, "errorBody", NoData)}
    /\ writer' = c.tok
    /\ UNCHANGED <<graphData, loading, error, latest>>
    /\ Render(FALSE, "ok", FALSE)

\* fetch resolves with a response whose ok is true
FetchResolvesOk(c) ==
    /\ c.pc = "fetch"
    /\ progress' = 70
    /\ currentStep' = "Receiving knowledge graph..."
    /\ calls' = (calls \ {c}) \cup {Call(c.tok, "json", NoData)}
    /\ writer' = c.tok
    /\ UNCHANGED <<graphData, loading, error, latest>>
    /\ Render(FALSE, "ok", FALSE)

\* errorData.detail || errorData.error || `HTTP ${status}: ${statusText}`
ErrorMessages ==
    { "HTTP 404: Not Found", "HTTP 403: Forbidden",
      "HTTP 500: Internal Server Error", "Could not scrape the article" }

\* the body of the failed response was read (or not): throw new Error(...)
ErrorBodySettles(c, message) ==
    /\ c.pc = "errorBody"
    /\ Catch(c, message)

\* response.json() rejects: the body is not JSON
JsonRejects(c) ==
    /\ c.pc = "json"
    /\ Catch(c, "Unexpected end of JSON input")

\* if (!data.entities || !data.relationships)
InvalidFormat(data) ==
    ~FieldTruthy(data.entities) \/ ~FieldTruthy(data.relationships)

\* response.json() resolves with data
JsonResolves(c, data) ==
    /\ c.pc = "json"
    /\ IF InvalidFormat(data)
       THEN Catch(c, "Invalid response format from backend")
       ELSE /\ progress' = 90
            /\ currentStep' = "Rendering graph..."
            /\ calls' = (calls \ {c}) \cup {Call(c.tok, "delay", data)}
            /\ writer' = c.tok
            /\ UNCHANGED <<graphData, loading, error, latest>>
            /\ Render(FALSE, "ok", FALSE)

\* the 300 ms delay is over: setGraphData(data), and the 500 ms timer starts
DelayFires(c, outcome, strict) ==
    /\ c.pc = "delay"
    /\ gv.nextId <= MaxInst
    /\ graphData' = c.data
    /\ progress' = 100
    /\ currentStep' = "Complete!"
    /\ calls' = (calls \ {c}) \cup {Call(c.tok, "timer", NoData)}
    /\ writer' = c.tok
    /\ UNCHANGED <<loading, error, latest>>
    /\ Render(TRUE, outcome, strict)

TimerFiresKeepsLoading(c, outcome, strict) ==
    /\ c.pc = "timer"
    /\ calls' = calls \ {c}
    /\ writer' = c.tok
    /\ UNCHANGED <<graphData, loading, error, progress, currentStep, latest>>
    /\ Render(FALSE, outcome, strict)

\* the 500 ms timer fires: setLoading(false)
TimerFires(c, outcome, strict) ==
    /\ c.pc = "timer"
    /\ loading' = FALSE
    /\ calls' = calls \ {c}
    /\ writer' = c.tok
    /\ UNCHANGED <<graphData, error, progress, currentStep, latest>>
    /\ Render(FALSE, outcome, strict)

handleRetry ==
    /\ error' = Null
    /\ graphData' = NoData
    /\ progress' = 0
    /\ currentStep' = ""
    /\ UNCHANGED <<loading, calls, latest, writer>>
    /\ Render(FALSE, "ok", FALSE)

\* the user submits the form of URLInput, which App renders in the input view
ClickSubmit == InputShown /\ handleURLSubmit

\* the user presses Retry of ErrorDisplay, which App renders in the error view
ClickRetry == ErrorShown /\ handleRetry

(***************************************************************************)
(* GraphVisualization: the user's actions and the timers.                  *)
(***************************************************************************)
\* cyRef.current.layout({name: layoutName}).run()
RunLayout(g, layoutName) ==
    IF g.cyRef # 0
    THEN [g EXCEPT !.insts = { IF c.id = g.cyRef
                               THEN [c EXCEPT !.layout = layoutName]
                               ELSE c : c \in @ }]
    ELSE g

\* changeLayout(layoutName), and the effect when layout changed
changeLayout(layoutName, outcome) ==
    /\ gv.mounted /\ gv.container
    /\ gv.nextId <= MaxInst
    /\ LET g1 == [RunLayout(gv, layoutName) EXCEPT !.layout = layoutName]
       IN  gv' = IF layoutName # gv.layout
                 THEN Rerun(g1, graphData, outcome)
                 ELSE g1
    /\ UNCHANGED appVars

\* the elements of the instance a tap can hit: cytoscape keeps the first
\* element of an id
Tappable(c) ==
    { i \in 1..Len(c.nodes) : \A j \in 1..(i - 1) : c.nodes[j].id # c.nodes[i].id }

\* cy.on('tap', 'node', ...): the user taps node i of the live instance
TapNode(i) ==
    /\ gv.cyRef # 0
    /\ i \in Tappable(CHOOSE c \in gv.insts : c.id = gv.cyRef)
    /\ gv' = [gv EXCEPT !.selectedNode =
                  (CHOOSE c \in gv.insts : c.id = gv.cyRef).nodes[i]]
    /\ UNCHANGED appVars

\* cy.on('tap', ...) with evt.target === cy: the user taps the empty canvas
TapCanvas ==
    /\ gv.cyRef # 0
    /\ gv' = [gv EXCEPT !.selectedNode = NoSelection]
    /\ UNCHANGED appVars

\* the close button of the node details panel, rendered while a node is selected
ClosePanel ==
    /\ gv.mounted /\ gv.container
    /\ gv.selectedNode # NoSelection
    /\ gv' = [gv EXCEPT !.selectedNode = NoSelection]
    /\ UNCHANGED appVars

\* JSON.stringify(graphData, null, 2): the text holds the entities and the
\* relationships of graphData, in order; a key whose value is undefined is
\* left out of the text, which is what Undef stands for
JSONStringify(data) ==
    [t |-> "json", entities |-> data.entities, relationships |-> data.relationships]

\* exportGraph(format): the document the browser downloads, if any
NoDownload == [t |-> "null"]

exportGraph(g, data, format) ==
    IF g.cyRef = 0 THEN NoDownload
    ELSE IF format = "png" THEN [t |-> "png", of |-> g.cyRef]
    ELSE IF format = "json" THEN JSONStringify(data)
    ELSE NoDownload

\* setTimeout(() => { if (cyRef.current) cyRef.current.fit(50) }, 100),
\* set by the effect that created instance owner
FitTarget(g, owner) == g.cyRef

FitTimerFires(owner) ==
    /\ owner \in gv.timers
    /\ gv' = [gv EXCEPT !.timers = @ \ {owner},
                        !.lastFit = IF FitTarget(gv, owner) # 0
                                    THEN [by |-> owner, on |-> FitTarget(gv, owner)]
                                    ELSE @]
    /\ UNCHANGED appVars

(***************************************************************************)
(* The program: the user acts through what App renders.                    *)
(***************************************************************************)
Next ==
    \/ ClickSubmit
    \/ ClickRetry
    \/ \E c \in calls : FetchRejects(c)
    \/ \E c \in calls : FetchResolvesNotOk(c)
    \/ \E c \in calls : FetchResolvesOk(c)
    \/ \E c \in calls : \E message \in ErrorMessages : ErrorBodySettles(c, message)
    \/ \E c \in calls : JsonRejects(c)
    \/ \E c \in calls : \E data \in AppPayloads : JsonResolves(c, data)
    \/ \E c \in calls : \E outcome \in Outcomes : \E strict \in BOOLEAN :
          DelayFires(c, outcome, strict)
    \/ \E c \in calls : \E outcome \in Outcomes : \E strict \in BOOLEAN :
          TimerFires(c, outcome, strict)
    \/ \E layoutName \in Layouts : \E outcome \in Outcomes :
          changeLayout(layoutName, outcome)
    \/ \E i \in 1..MaxEnt : TapNode(i)
    \/ TapCanvas
    \/ ClosePanel
    \/ \E owner \in gv.timers : FitTimerFires(owner)

Spec == Init /\ [][Next]_vars

(***************************************************************************)
(* The program when every pending continuation of handleURLSubmit runs:    *)
(* the fetch and the reading of the body settle, and the timers fire.      *)
(***************************************************************************)
CallStep ==
    \E c \in calls :
        \/ FetchRejects(c)
        \/ FetchResolvesNotOk(c)
        \/ FetchResolvesOk(c)
        \/ \E message \in ErrorMessages : ErrorBodySettles(c, message)
        \/ JsonRejects(c)
        \/ \E data \in AppPayloads : JsonResolves(c, data)
        \/ \E outcome \in Outcomes : \E strict \in BOOLEAN : DelayFires(c, outcome, strict)
        \/ \E outcome \in Outcomes : \E strict \in BOOLEAN : TimerFires(c, outcome, strict)

SpecLive == Spec /\ WF_vars(CallStep)

(***************************************************************************)
(* The handlers as commands: submit and retry called in any state, so      *)
(* that calls of handleURLSubmit overlap.  App itself renders the form     *)
(* only in the input view and Retry only in the error view (Next).         *)
(***************************************************************************)
\* changeLayout called with any name: the four of the buttons, and one more
\* that cytoscape knows
LayoutNames == Layouts \cup {"concentric"}

CommandPayloads ==
    { Payload(Arr(<<Entity(Str("a"), Str("Alice"), Str("PERSON"), Num(9))>>),
              Arr(<<>>)),
      Payload(Arr(<<Entity(Str("a"), Str("Alice"), Str("PERSON"), Num(9)),
                    Entity(Undef, Str("b"), Str("ORGANIZATION"), Undef)>>),
              Arr(<<Rel(Str("a"), Undef, Str("b"), Undef, Str("works_at"), Undef)>>)),
      Payload(Missing, Arr(<<>>)) }

Submit == handleURLSubmit

Retry == handleRetry

NextCommands ==
    \/ Submit
    \/ Retry
    \/ \E c \in calls : FetchRejects(c)
    \/ \E c \in calls : FetchResolvesNotOk(c)
    \/ \E c \in calls : FetchResolvesOk(c)
    \/ \E c \in calls : \E message \in ErrorMessages : ErrorBodySettles(c, message)
    \/ \E c \in calls : JsonRejects(c)
    \/ \E c \in calls : \E data \in CommandPayloads : JsonResolves(c, data)
    \/ \E c \in calls : \E outcome \in Outcomes : \E strict \in BOOLEAN :
          DelayFires(c, outcome, strict)
    \/ \E c \in calls : \E outcome \in Outcomes : \E strict \in BOOLEAN :
          TimerFires(c, outcome, strict)
    \/ \E layoutName \in LayoutNames : \E outcome \in Outcomes :
          changeLayout(layoutName, outcome)
    \/ \E owner \in gv.timers : FitTimerFires(owner)

SpecCommands == Init /\ [][NextCommands]_vars

(***************************************************************************)
(* The build of the graph, applied to every response: a call of            *)
(* handleURLSubmit awaits the body of an ok response, the body is parsed   *)
(* and the graph displayed.                                                *)
(***************************************************************************)
InitBuild ==
    /\ graphData = NoData
    /\ loading = TRUE
    /\ error = Null
    /\ progress = 70
    /\ currentStep = "Receiving knowledge graph..."
    /\ calls = {Call(1, "json", NoData)}
    /\ latest = 1
    /\ writer = 1
    /\ gv = GVInit

NextBuild ==
    \/ \E c \in calls : \E data \in Payloads : JsonResolves(c, data)
    \/ \E c \in calls : \E outcome \in Outcomes : \E strict \in BOOLEAN :
          DelayFires(c, outcome, strict)
    \/ \E c \in calls : \E outcome \in Outcomes : \E strict \in BOOLEAN :
          TimerFires(c, outcome, strict)

SpecBuild == InitBuild /\ [][NextBuild]_vars

(***************************************************************************)
(* Properties.                                                             *)
(***************************************************************************)
NodeIdsOf(c) == { c.nodes[i].id : i \in 1..Len(c.nodes) }

\* the instance cyRef.current refers to
Current == CHOOSE c \in gv.insts : c.id = gv.cyRef

ArraysShown ==
    GraphShown /\ IsArray(graphData.entities) /\ IsArray(graphData.relationships)

\* C1: every edge of every rendering instance has a source and a target that
\* are ids of nodes of that same instance: no dangling edge is materialized.
C1_NoDanglingEdge ==
    \A c \in gv.insts : \A i \in 1..Len(c.edges) :
        c.edges[i].source \in NodeIdsOf(c) /\ c.edges[i].target \in NodeIdsOf(c)

\* an instance is live that has an edge, built from a payload of which
\* another relationship was dropped
C1_Witness ==
    /\ gv.cyRef # 0
    /\ Len(Current.edges) >= 1
    /\ Len(gv.skipped) >= 1

\* C2: once the build of the displayed payload is over (an instance is live,
\* or the entities are empty), the rejected relationships that were recorded
\* and the materialized edges together are as many as the input relationships.
C2_EveryRelationshipClassified ==
    (ArraysShown /\ (gv.cyRef # 0 \/ LengthIsZero(graphData.entities))) =>
        Len(gv.skipped) + (IF gv.cyRef # 0 THEN Len(Current.edges) ELSE 0)
            = Len(graphData.relationships.a)

\* C3: the node ids of every rendering instance are pairwise distinct.
C3_NodeIdsDistinct ==
    \A c \in gv.insts : \A i, j \in 1..Len(c.nodes) :
        i # j => c.nodes[i].id # c.nodes[j].id

\* C4: in the legend stats, the per-entity-type counts sum to stats.nodes and
\* the per-relationship-type counts sum to stats.edges.
C4_StatsSums ==
    gv.stats # NoStats =>
        /\ SumCounts(gv.stats.entityTypes) = gv.stats.nodes
        /\ SumCounts(gv.stats.relationshipTypes) = gv.stats.edges

\* C5: at every moment at most one rendering instance is live, and it is the
\* one cyRef.current refers to: an instance is created only once the previous
\* one is destroyed.
C5_AtMostOneInstance ==
    /\ Cardinality(gv.insts) <= 1
    /\ \A c \in gv.insts : c.id = gv.cyRef

\* a second instance is live, the first one having been destroyed
C5_Witness ==
    /\ gv.cyRef = 2
    /\ { c.id : c \in gv.insts } = {2}

C7_FitOnOwnSession == gv.lastFit.by = gv.lastFit.on

\* C8: exactly one of the four views is shown.
ViewsShown ==
    { v \in {"input", "loading", "error", "graph"} :
        \/ v = "input" /\ InputShown
        \/ v = "loading" /\ LoadingShown
        \/ v = "error" /\ ErrorShown
        \/ v = "graph" /\ GraphShown }

C8_ExactlyOneView == Cardinality(ViewsShown) = 1

\* the catch block of handleURLSubmit ran: the error view is shown
C8_Witness == ErrorShown /\ error = Str("Invalid response format from backend")

\* C9: no state is terminal: when no call of handleURLSubmit is in flight,
\* the user can submit a URL or retry.
C9_NoTerminalState ==
    calls = {} => (ENABLED ClickSubmit \/ ENABLED ClickRetry)

\* C10: a response whose entities or relationships is not an array is never
\* displayed.
C10_MalformedNeverDisplayed ==
    GraphShown => (IsArray(graphData.entities) /\ IsArray(graphData.relationships))

\* C11: a change of the layout of the mounted component keeps its rendering
\* instance: cyRef.current refers to the same instance after the step, which
\* is neither destroyed nor created again.
C11_LayoutInPlace ==
    [][(gv.mounted /\ gv'.mounted /\ gv.cyRef # 0 /\ gv'.layout # gv.layout)
          => (gv'.cyRef = gv.cyRef /\ gv'.nextId = gv.nextId)]_vars

\* C12: the selection changes only by a tap or by closing the panel: a step
\* that changes the layout keeps it, and a step that changes it makes it none
\* or a node of the live instance that was tapped.
C12_SelectionFollowsTaps ==
    [][(gv.mounted /\ gv'.mounted) =>
          /\ (gv'.layout # gv.layout => gv'.selectedNode = gv.selectedNode)
          /\ (gv'.selectedNode # gv.selectedNode =>
                 \/ gv'.selectedNode = NoSelection
                 \/ /\ gv.cyRef # 0
                    /\ \E i \in 1..Len(Current.nodes) :
                          gv'.selectedNode = Current.nodes[i])]_vars

\* a node is selected and the layout is no longer the initial one: a tap and
\* a change of the layout both happened
C12_Witness ==
    /\ gv.selectedNode # NoSelection
    /\ gv.layout # "cose"

\* the 0-based position an edge id names
EdgePosition(edge) == CHOOSE k \in 0..MaxRel : edge.id = "edge-" \o DecStr(k)

\* C13: the nodes of an instance are the entities of the payload in input
\* order; every edge is the one built from the relationship at the 0-based
\* input position k its id "edge-k" names, and the edges are in input order.
C13_EdgeIdsByInputPosition ==
    \A c \in gv.insts :
        LET entities == graphData.entities.a
            relationships == graphData.relationships.a
        IN  /\ Len(c.nodes) = Len(entities)
            /\ \A i \in 1..Len(c.nodes) :
                  c.nodes[i].label = Or(entities[i].name, Str("Unknown"))
            /\ \A i \in 1..Len(c.edges) :
                  \E k \in 0..(Len(relationships) - 1) :
                      /\ c.edges[i].id = "edge-" \o DecStr(k)
                      /\ c.edges[i] = EdgeOf(relationships[k + 1], k)
            /\ \A i, j \in 1..Len(c.edges) :
                  i < j => EdgePosition(c.edges[i]) < EdgePosition(c.edges[j])

\* an instance is live whose first edge is built from the second
\* relationship, the first relationship having been dropped
C13_Witness ==
    /\ gv.cyRef # 0
    /\ Len(Current.edges) >= 1
    /\ Current.edges[1].id = "edge-1"

\* the last run of the effect returned at the check of the container's
\* size: the payload passed the array checks, the canvas element is rendered,
\* and the run returned no cleanup
ZeroExtentSkipped ==
    /\ gv.mounted /\ gv.container
    /\ ArraysShown
    /\ ~gv.hasCleanup

\* C14: when the effect met a container of zero width or height, no instance
\* is live and the failure is reported to the caller: App holds an error.
C14_ZeroExtentReported ==
    ZeroExtentSkipped => (gv.insts = {} /\ Truthy(error))

\* C15: the teardown is idempotent: after the cleanup of the effect no
\* instance is live and cyRef.current is null, and the cleanup, the destroy of
\* the previous instance and the unmount, run once more, change nothing.
C15_TeardownIdempotent ==
    LET once == EffectCleanup(gv)
    IN  /\ once.cyRef = 0
        /\ once.insts = {}
        /\ EffectCleanup(once) = once
        /\ DestroyCurrent(once) = once
        /\ Unmount(Unmount(gv)) = Unmount(gv)

\* an instance was created and destroyed, none is live, and the effect has
\* returned a cleanup, which will run on the absent instance
C15_Witness ==
    /\ gv.mounted /\ gv.hasCleanup
    /\ gv.nextId > 1
    /\ gv.cyRef = 0

\* a step in which handleURLSubmit is called
SubmitStep == \E c \in calls' \ calls : c.pc = "fetch"

C17_ExportIsValidated ==
    gv.cyRef # 0 =>
        LET doc == exportGraph(gv, graphData, "json")
        IN  \A i \in 1..Len(doc.relationships.a) :
                EdgeValid(NodeIdsOf(Current), EdgeOf(doc.relationships.a[i], i - 1))

\* C18: every node of every instance has a number of mentions of at least 1.
C18_MentionsAtLeastOne ==
    \A c \in gv.insts : \A i \in 1..Len(c.nodes) :
        c.nodes[i].mentions.t = "num" /\ c.nodes[i].mentions.n >= 1

SourceOf(rel) == IF rel.source.t # "undef" THEN rel.source ELSE rel.from
TargetOf(rel) == IF rel.target.t # "undef" THEN rel.target ELSE rel.to

\* C20: the id of a node is String(entity.id) when the entity has an id and
\* String(entity.name) otherwise, and a relationship whose source and target
\* are ids of entities of the payload is an edge of the instance.
C20_IdResolution ==
    \A c \in gv.insts :
        LET entities == graphData.entities.a
            relationships == graphData.relationships.a
            ids == { entities[i].id : i \in 1..Len(entities) } \ {Undef}
        IN  /\ \A i \in 1..Len(c.nodes) :
                  c.nodes[i].id = IF entities[i].id.t # "undef"
                                  THEN String(entities[i].id)
                                  ELSE String(entities[i].name)
            /\ \A k \in 1..Len(relationships) :
                  (SourceOf(relationships[k]) \in ids /\ TargetOf(relationships[k]) \in ids)
                      => \E i \in 1..Len(c.edges) : EdgePosition(c.edges[i]) = k - 1

\* the count a legend section shows for type t: none when t has no entry
CountOf(counts, t) == IF t \in DOMAIN counts THEN counts[t] ELSE 0

\* C21: the legend agrees with the instance: for every type t the entity-type
\* count of t is the number of nodes of type t (an entity without type being
\* a node of type "default"), and the relationship-type count of t is the
\* number of edges of type t.
C21_LegendAgreesWithModel ==
    (gv.cyRef # 0 /\ gv.stats # NoStats) =>
        LET c == Current
            nodeTypes == { String(c.nodes[i].type) : i \in 1..Len(c.nodes) }
            edgeTypes == { String(c.edges[i].type) : i \in 1..Len(c.edges) }
        IN  /\ \A t \in nodeTypes \cup DOMAIN gv.stats.entityTypes :
                  CountOf(gv.stats.entityTypes, t) =
                      Cardinality({ i \in 1..Len(c.nodes) : String(c.nodes[i].type) = t })
            /\ \A t \in edgeTypes \cup DOMAIN gv.stats.relationshipTypes :
                  CountOf(gv.stats.relationshipTypes, t) =
                      Cardinality({ i \in 1..Len(c.edges) : String(c.edges[i].type) = t })

(***************************************************************************)
(* ErrorDisplay: the message shown for App's error.                        *)
(***************************************************************************)
\* errorMessage.includes(key)
Includes(errorMessage, key) ==
    \E i \in 1..(Len(errorMessage) - Len(key) + 1) :
        SubSeq(errorMessage, i, i + Len(key) - 1) = key

\* errorMap, its entries in the order Object.entries yields them
errorMap ==
    << <<"Failed to fetch", "Network error. Please check your connection.">>,
       <<"HTTP error! status: 404", "Article not found.">>,
       <<"HTTP error! status: 500", "Server error. Please try again later.">>,
       <<"HTTP error! status: 403", "Access to this URL is forbidden.">>,
       <<"Invalid URL", "Please enter a valid URL.">> >>

\* formatError(errorMessage): the value of the first key the message includes
formatError(errorMessage) ==
    LET hits == { i \in 1..Len(errorMap) : Includes(errorMessage, errorMap[i][1]) }
    IN  IF hits = {} THEN errorMessage
        ELSE errorMap[CHOOSE i \in hits : \A j \in hits : i <= j][2]

\* C22: in the error view, the failure of a 404, 403 or 500 response and of an
\* unreachable network is shown as its normalized message, and every other
\* message is shown as it is.
C22_ErrorNormalized ==
    ErrorShown =>
        LET shown == formatError(String(error))
        IN  CASE String(error) = "HTTP 404: Not Found" -> shown = "Article not found."
              [] String(error) = "HTTP 403: Forbidden" ->
                     shown = "Access to this URL is forbidden."
              [] String(error) = "HTTP 500: Internal Server Error" ->
                     shown = "Server error. Please try again later."
              [] String(error) = "Failed to fetch" ->
                     shown = "Network error. Please check your connection."
              [] OTHER -> shown = String(error)

\* C23: every submission leaves the loading view: loading becomes false; a
\* failed response leads to the error view, and a response that passed the
\* shape check leads to the graph view.
C23_LeavesLoading ==
    /\ LoadingShown ~> ~LoadingShown
    /\ (\E c \in calls : c.pc = "errorBody") ~> ErrorShown
    /\ (\E c \in calls : c.pc \in {"delay", "timer"}) ~> GraphShown

\* the loading view is shown at progress 100: the response is applied and
\* the 500 ms timer is pending
C23_Witness ==
    /\ LoadingShown
    /\ \E c \in calls : c.pc = "timer"

\* C24: whenever the legend is rendered (stats is not null in the component's
\* last return), an instance is live and stats is what the build of that
\* instance from the displayed payload set.
C24_StatsOfLiveSession ==
    (gv.mounted /\ gv.container /\ gv.stats # NoStats) =>
        /\ gv.cyRef # 0
        /\ gv.stats = Stats(Current.nodes, Current.edges, graphData)

\* C25: progress is one of 0, 10, 30, 70, 90, 100, so within 0..100; while a
\* submission stays in the loading view progress does not decrease; and in
\* the error view and in the input view (at the start and after a retry)
\* progress is 0 and the step label is empty.
C25_ProgressRange ==
    /\ [](progress \in {0, 10, 30, 70, 90, 100})
    /\ []((ErrorShown \/ InputShown) => (progress = 0 /\ currentStep = ""))
    /\ [][(loading /\ loading') => progress' >= progress]_vars

\* the error view is shown for a failed response: the catch block ran after
\* progress had reached 30
C25_Witness == ErrorShown /\ error = Str("HTTP 500: Internal Server Error")

\* C26: the width and height of every node of every instance is
\* min(20 + 5 * mentions, 60), lies in 25..60, and is 60 when mentions >= 8.
C26_NodeDiameter ==
    \A c \in gv.insts : \A i \in 1..Len(c.nodes) :
        LET mentions == c.nodes[i].mentions.n
            d == NodeDiameter(c.nodes[i])
        IN  /\ d = (IF 20 + 5 * mentions <= 60 THEN 20 + 5 * mentions ELSE 60)
            /\ d \in 25..60
            /\ (mentions >= 8 => d = 60)

\* C27: every step taken from the error view is the retry and leads to the
\* input view: error and graphData are null, loading is false, progress is 0,
\* the step label is empty, and no other view is shown.
C27_RetryToIdle ==
    [][ErrorShown =>
          /\ error' = Null /\ graphData' = NoData /\ ~loading'
          /\ progress' = 0 /\ currentStep' = ""
          /\ InputShown' /\ ~LoadingShown' /\ ~ErrorShown' /\ ~GraphShown']_vars

\* the input view is shown after a submission: the retry was pressed
C27_Witness == InputShown /\ latest # 0

====
